---- MODULE Spec2Model ----
(***************************************************************************)
(* Model of identity/src/keypair.rs: the polymorphic Keypair and PublicKey *)
(* wrappers over the Ed25519, RSA, Secp256k1 and ECDSA backends, their     *)
(* protobuf wire encoding, and the conversions to and from the concrete    *)
(* backend types.  A build configuration (the enabled cargo features and   *)
(* the target architecture) is fixed initially; a caller then applies the  *)
(* operations of the two types to the values it holds.                     *)
(***************************************************************************)
EXTENDS Integers, Sequences, FiniteSets, TLC

VARIABLES
    features,   \* the cargo features the crate is built with
    wasm32,     \* target_arch = "wasm32"
    keypair,    \* the Keypair the caller holds (NoKeypair: none yet)
    publickey,  \* the PublicKey the caller holds (NoPublicKey: none yet)
    res,        \* the last call: its name, receiver, inputs and result
    encLog,     \* encode_protobuf outputs seen for the held PublicKey value
    panicked    \* the process hit a panic (unreachable!())

vars == <<features, wasm32, keypair, publickey, res, encLog, panicked>>

----------------------------------------------------------------------------
(* Bounds of the model *)

\* secret keys are numbered 1..MaxKey
MaxKey == 2
\* messages are the one-byte strings <<1>> .. <<MaxMsg>>
MaxMsg == 2

SecretKeys == 1..MaxKey
Msgs == {<<m>> : m \in 1..MaxMsg}

----------------------------------------------------------------------------
(* Build configuration: #[cfg(feature = ...)] and target_arch *)

AllFeatures == {"ed25519", "rsa", "secp256k1", "ecdsa"}
Variants == {"Ed25519", "Rsa", "Secp256k1", "Ecdsa"}

\* #[cfg(any(feature = "ecdsa", feature = "secp256k1", feature = "ed25519", feature = "rsa"))]
any_feature == features # {}

\* the cfg under which a variant of KeyPairInner / PublicKeyInner exists
cfg_ed25519 == "ed25519" \in features
cfg_rsa == "rsa" \in features /\ ~wasm32
cfg_secp256k1 == "secp256k1" \in features
cfg_ecdsa == "ecdsa" \in features

cfg_variant(v) ==
    CASE v = "Ed25519" -> cfg_ed25519
      [] v = "Rsa" -> cfg_rsa
      [] v = "Secp256k1" -> cfg_secp256k1
      [] v = "Ecdsa" -> cfg_ecdsa
      [] OTHER -> FALSE

----------------------------------------------------------------------------
(* Results and errors *)

Ok(v) == [ok |-> TRUE, val |-> v]
Err(e) == [ok |-> FALSE, err |-> e]

\* crate::error::DecodingError constructors
missing_feature(name) == [kind |-> "missing_feature", what |-> name]
bad_protobuf(what, e) == [kind |-> "bad_protobuf", what |-> what, source |-> e]
failed_to_parse(what) == [kind |-> "failed_to_parse", what |-> what]
encoding_unsupported(name) == [kind |-> "encoding_unsupported", what |-> name]
decoding_unsupported(name) == [kind |-> "decoding_unsupported", what |-> name]
\* crate::error::OtherVariantError::new(actual)
OtherVariantError(actual) == [kind |-> "other_variant", what |-> actual]
\* crate::error::SigningError
SigningError(what) == [kind |-> "signing", what |-> what]
\* unreachable!(): not a returned value, the call never returns
Panic == [ok |-> FALSE, err |-> [kind |-> "panic", what |-> "unreachable"]]

----------------------------------------------------------------------------
(* Algorithm backends (crate::ed25519, crate::rsa, crate::secp256k1,       *)
(* crate::ecdsa): key derivation, sign, verify and the native encodings.   *)

AlgCode == [Ed25519 |-> 1, Rsa |-> 2, Secp256k1 |-> 3, Ecdsa |-> 4]

\* pair.public(): the public half of a secret key, per algorithm
backend_public(alg, sk) == 16 * AlgCode[alg] + sk

ValidPublic(alg) == {backend_public(alg, sk) : sk \in SecretKeys}

\* an RSA key the backend refuses to sign with
rsa_unusable(sk) == sk % 2 = 0

\* pair.sign(msg) / pair.secret().sign(msg)
backend_sign(alg, sk, msg) ==
    IF alg = "Rsa" /\ rsa_unusable(sk)
    THEN Err(SigningError("rsa"))
    ELSE Ok(<<backend_public(alg, sk) + 100>> \o msg)

\* pk.verify(msg, sig)
backend_verify(alg, pk, msg, sig) ==
    pk \in ValidPublic(alg) /\ sig = <<pk + 100>> \o msg

\* the native public encodings: raw bytes (Ed25519), compressed point
\* (Secp256k1), X.509 SubjectPublicKeyInfo DER (RSA, ECDSA)
backend_encode_public(alg, pk) ==
    CASE alg = "Ed25519" -> <<pk>>
      [] alg = "Secp256k1" -> <<2, pk>>
      [] alg = "Rsa" -> <<48, 1, pk>>
      [] alg = "Ecdsa" -> <<48, 2, pk>>

\* try_from_bytes / try_decode_x509 / try_decode_der on public key bytes
backend_decode_public(alg, bytes) ==
    LET n == Len(bytes)
        shape == CASE alg = "Ed25519" -> n = 1
                   [] alg = "Secp256k1" -> n = 2 /\ bytes[1] = 2
                   [] alg = "Rsa" -> n = 3 /\ bytes[1] = 48 /\ bytes[2] = 1
                   [] alg = "Ecdsa" -> n = 3 /\ bytes[1] = 48 /\ bytes[2] = 2
    IN  IF shape /\ bytes[n] \in ValidPublic(alg)
        THEN Ok(bytes[n])
        ELSE Err(failed_to_parse(alg))

\* the native private encodings: secret||public (ed25519::Keypair::to_bytes),
\* raw scalar (secp256k1::SecretKey::to_bytes), SEC1 DER
\* (ecdsa::SecretKey::encode_der), PKCS#8 DER (RSA, import only)
backend_encode_private(alg, sk) ==
    CASE alg = "Ed25519" -> <<sk, backend_public(alg, sk)>>
      [] alg = "Secp256k1" -> <<sk>>
      [] alg = "Ecdsa" -> <<48, 3, sk>>
      [] alg = "Rsa" -> <<48, 4, sk>>

\* ed25519::Keypair::try_from_bytes / secp256k1::SecretKey::try_from_bytes /
\* ecdsa::SecretKey::try_decode_der / rsa::Keypair::try_decode_pkcs8
backend_decode_private(alg, bytes) ==
    LET n == Len(bytes)
        good == CASE alg = "Ed25519" ->
                        /\ n = 2
                        /\ bytes[1] \in SecretKeys
                        /\ bytes[2] = backend_public(alg, bytes[1])
                  [] alg = "Secp256k1" -> n = 1 /\ bytes[1] \in SecretKeys
                  [] alg = "Ecdsa" ->
                        n = 3 /\ bytes[1] = 48 /\ bytes[2] = 3 /\ bytes[3] \in SecretKeys
                  [] alg = "Rsa" ->
                        n = 3 /\ bytes[1] = 48 /\ bytes[2] = 4 /\ bytes[3] \in SecretKeys
    IN  IF good
        THEN Ok(IF alg = "Ed25519" THEN bytes[1] ELSE bytes[n])
        ELSE Err(failed_to_parse(alg))

\* PartialEq / Ord / Hash of the backends' PublicKey types: all three go by
\* the key's bytes
backend_eq(alg, a, b) == backend_encode_public(alg, a) = backend_encode_public(alg, b)

backend_cmp(alg, a, b) ==
    IF a < b THEN "Less" ELSE IF a > b THEN "Greater" ELSE "Equal"

\* what the backend's Hash::hash feeds to the hasher
backend_hash(alg, a) == backend_encode_public(alg, a)

----------------------------------------------------------------------------
(* crate::proto: the generated wire record {Type, Data}                    *)

\* proto::KeyType: the numeric values of the wire enumeration
KeyType == [RSA |-> 0, Ed25519 |-> 1, Secp256k1 |-> 2, ECDSA |-> 3]
KnownTypes == {KeyType.RSA, KeyType.Ed25519, KeyType.Secp256k1, KeyType.ECDSA}

\* MessageWrite::write_message: field 1 (varint, tag byte 8) = Type,
\* field 2 (length-delimited, tag byte 18) = Data
write_message(msg) == <<8, msg.Type, 18, Len(msg.Data)>> \o msg.Data

RECURSIVE read_fields(_, _, _)
read_fields(bytes, i, msg) ==
    IF i > Len(bytes)
    THEN IF msg.hasType /\ msg.hasData
         THEN Ok([Type |-> msg.Type, Data |-> msg.Data])
         ELSE Err("missing required field")
    ELSE IF i + 1 > Len(bytes)
    THEN Err("unexpected end of buffer")
    ELSE IF bytes[i] = 8
    THEN IF bytes[i + 1] \in KnownTypes
         THEN read_fields(bytes, i + 2,
                          [msg EXCEPT !.hasType = TRUE, !.Type = bytes[i + 1]])
         ELSE Err("unsupported algorithm type")
    ELSE IF bytes[i] = 18
    THEN IF i + 1 + bytes[i + 1] > Len(bytes)
         THEN Err("unexpected end of buffer")
         ELSE read_fields(bytes, i + 2 + bytes[i + 1],
                          [msg EXCEPT !.hasData = TRUE,
                                      !.Data = SubSeq(bytes, i + 2, i + 1 + bytes[i + 1])])
    ELSE Err("unknown field")

\* MessageRead::from_reader for proto::PublicKey and proto::PrivateKey
from_reader(bytes) ==
    read_fields(bytes, 1, [hasType |-> FALSE, hasData |-> FALSE,
                           Type |-> 0, Data |-> <<>>])

----------------------------------------------------------------------------
(* Keypair *)

NoKeypair == [variant |-> "None", key |-> 0]
NoPublicKey == [variant |-> "None", key |-> 0]

\* Keypair::generate_ed25519 / generate_secp256k1 / generate_ecdsa; sk is
\* what the backend's generate() drew
generate_ed25519(sk) == [variant |-> "Ed25519", key |-> sk]
generate_secp256k1(sk) == [variant |-> "Secp256k1", key |-> sk]
generate_ecdsa(sk) == [variant |-> "Ecdsa", key |-> sk]

\* Keypair::rsa_from_pkcs8
rsa_from_pkcs8(pkcs8_der) ==
    LET r == backend_decode_private("Rsa", pkcs8_der)
    IN  IF r.ok THEN Ok([variant |-> "Rsa", key |-> r.val]) ELSE r

\* sign with the RSA arm replacing the backend's error by one of its own
sign_rsa_error_replaced(self, msg) ==
    CASE self.variant = "Ed25519" -> Ok(backend_sign("Ed25519", self.key, msg).val)
      [] self.variant = "Rsa" ->
            IF backend_sign("Rsa", self.key, msg).ok
            THEN backend_sign("Rsa", self.key, msg)
            ELSE Err(SigningError("sign"))
      [] self.variant = "Secp256k1" -> Ok(backend_sign("Secp256k1", self.key, msg).val)
      [] self.variant = "Ecdsa" -> Ok(backend_sign("Ecdsa", self.key, msg).val)

\* Keypair::sign
sign(self, msg) ==
    CASE self.variant = "Ed25519" -> Ok(backend_sign("Ed25519", self.key, msg).val)
      [] self.variant = "Rsa" -> backend_sign("Rsa", self.key, msg)
      [] self.variant = "Secp256k1" -> Ok(backend_sign("Secp256k1", self.key, msg).val)
      [] self.variant = "Ecdsa" -> Ok(backend_sign("Ecdsa", self.key, msg).val)

\* public with the ECDSA arm building the Secp256k1 variant
public_ecdsa_as_secp256k1(self) ==
    CASE self.variant = "Ed25519" ->
            [variant |-> "Ed25519", key |-> backend_public("Ed25519", self.key)]
      [] self.variant = "Rsa" ->
            [variant |-> "Rsa", key |-> backend_public("Rsa", self.key)]
      [] self.variant = "Secp256k1" ->
            [variant |-> "Secp256k1", key |-> backend_public("Secp256k1", self.key)]
      [] self.variant = "Ecdsa" ->
            [variant |-> "Secp256k1", key |-> backend_public("Ecdsa", self.key)]

\* Keypair::public
public(self) ==
    CASE self.variant = "Ed25519" ->
            [variant |-> "Ed25519", key |-> backend_public("Ed25519", self.key)]
      [] self.variant = "Rsa" ->
            [variant |-> "Rsa", key |-> backend_public("Rsa", self.key)]
      [] self.variant = "Secp256k1" ->
            [variant |-> "Secp256k1", key |-> backend_public("Secp256k1", self.key)]
      [] self.variant = "Ecdsa" ->
            [variant |-> "Ecdsa", key |-> backend_public("Ecdsa", self.key)]

\* to_protobuf_encoding with the RSA arm encoding the key like the other arms
to_protobuf_encoding_rsa_encoded(self) ==
    IF ~any_feature THEN Panic
    ELSE CASE self.variant = "Ed25519" ->
                Ok(write_message([Type |-> KeyType.Ed25519,
                                  Data |-> backend_encode_private("Ed25519", self.key)]))
           [] self.variant = "Rsa" ->
                Ok(write_message([Type |-> KeyType.RSA,
                                  Data |-> backend_encode_private("Rsa", self.key)]))
           [] self.variant = "Secp256k1" ->
                Ok(write_message([Type |-> KeyType.Secp256k1,
                                  Data |-> backend_encode_private("Secp256k1", self.key)]))
           [] self.variant = "Ecdsa" ->
                Ok(write_message([Type |-> KeyType.ECDSA,
                                  Data |-> backend_encode_private("Ecdsa", self.key)]))

\* to_protobuf_encoding with the Secp256k1 arm writing the ECDSA type
to_protobuf_encoding_secp256k1_tagged_ecdsa(self) ==
    IF ~any_feature THEN Panic
    ELSE CASE self.variant = "Ed25519" ->
                Ok(write_message([Type |-> KeyType.Ed25519,
                                  Data |-> backend_encode_private("Ed25519", self.key)]))
           [] self.variant = "Rsa" -> Err(encoding_unsupported("RSA"))
           [] self.variant = "Secp256k1" ->
                Ok(write_message([Type |-> KeyType.ECDSA,
                                  Data |-> backend_encode_private("Secp256k1", self.key)]))
           [] self.variant = "Ecdsa" ->
                Ok(write_message([Type |-> KeyType.ECDSA,
                                  Data |-> backend_encode_private("Ecdsa", self.key)]))

\* Keypair::to_protobuf_encoding
to_protobuf_encoding(self) ==
    IF ~any_feature THEN Panic
    ELSE CASE self.variant = "Ed25519" ->
                Ok(write_message([Type |-> KeyType.Ed25519,
                                  Data |-> backend_encode_private("Ed25519", self.key)]))
           [] self.variant = "Rsa" -> Err(encoding_unsupported("RSA"))
           [] self.variant = "Secp256k1" ->
                Ok(write_message([Type |-> KeyType.Secp256k1,
                                  Data |-> backend_encode_private("Secp256k1", self.key)]))
           [] self.variant = "Ecdsa" ->
                Ok(write_message([Type |-> KeyType.ECDSA,
                                  Data |-> backend_encode_private("Ecdsa", self.key)]))

\* the backend's decoded key wrapped in the Keypair variant v (the .map closures)
map_keypair(v, r) == IF r.ok THEN Ok([variant |-> v, key |-> r.val]) ELSE r

\* from_protobuf_encoding with the Secp256k1 and ECDSA arms' decoders exchanged
from_protobuf_encoding_arms_swapped(bytes) ==
    IF ~any_feature THEN Panic
    ELSE LET private_key == from_reader(bytes)
         IN  IF ~private_key.ok
             THEN Err(bad_protobuf("private key bytes", private_key.err))
             ELSE CASE private_key.val.Type = KeyType.Ed25519 ->
                        IF "ed25519" \in features
                        THEN map_keypair("Ed25519",
                                 backend_decode_private("Ed25519", private_key.val.Data))
                        ELSE Err(missing_feature("ed25519"))
                    [] private_key.val.Type = KeyType.RSA ->
                        Err(decoding_unsupported("RSA"))
                    [] private_key.val.Type = KeyType.Secp256k1 ->
                        IF "secp256k1" \in features
                        THEN map_keypair("Secp256k1",
                                 backend_decode_private("Ecdsa", private_key.val.Data))
                        ELSE Err(missing_feature("secp256k1"))
                    [] private_key.val.Type = KeyType.ECDSA ->
                        IF "ecdsa" \in features
                        THEN map_keypair("Ecdsa",
                                 backend_decode_private("Secp256k1", private_key.val.Data))
                        ELSE Err(missing_feature("ecdsa"))

\* Keypair::from_protobuf_encoding
from_protobuf_encoding(bytes) ==
    IF ~any_feature THEN Panic
    ELSE LET private_key == from_reader(bytes)
         IN  IF ~private_key.ok
             THEN Err(bad_protobuf("private key bytes", private_key.err))
             ELSE CASE private_key.val.Type = KeyType.Ed25519 ->
                        IF "ed25519" \in features
                        THEN map_keypair("Ed25519",
                                 backend_decode_private("Ed25519", private_key.val.Data))
                        ELSE Err(missing_feature("ed25519"))
                    [] private_key.val.Type = KeyType.RSA ->
                        Err(decoding_unsupported("RSA"))
                    [] private_key.val.Type = KeyType.Secp256k1 ->
                        IF "secp256k1" \in features
                        THEN map_keypair("Secp256k1",
                                 backend_decode_private("Secp256k1", private_key.val.Data))
                        ELSE Err(missing_feature("secp256k1"))
                    [] private_key.val.Type = KeyType.ECDSA ->
                        IF "ecdsa" \in features
                        THEN map_keypair("Ecdsa",
                                 backend_decode_private("Ecdsa", private_key.val.Data))
                        ELSE Err(missing_feature("ecdsa"))

\* Zeroize for Vec<u8>: every byte overwritten with zero
zeroize(data) == [i \in 1..Len(data) |-> 0]

\* impl Zeroize for proto::PrivateKey: scrubs the opaque key bytes
PrivateKey_zeroize(private_key) == [private_key EXCEPT !.Data = zeroize(@)]

\* the memory of the parsed record private_key when a call releases it: none
\* when the call never held one
NoBuffer == [allocated |-> FALSE, Type |-> 0, Data |-> <<>>]
Released(private_key) ==
    [allocated |-> TRUE, Type |-> private_key.Type, Data |-> private_key.Data]

\* from_protobuf_encoding keeping the parsed record in a plain binding
from_protobuf_encoding_dropped_unwrapped(bytes) ==
    IF ~any_feature THEN NoBuffer
    ELSE LET private_key == from_reader(bytes)
         IN  IF ~private_key.ok
             THEN NoBuffer
             ELSE Released(private_key.val)

\* Keypair::from_protobuf_encoding, what it leaves of private_key: the record
\* is wrapped in Zeroizing as soon as it is parsed, and every arm of the match
\* returns through the end of that binding's scope, where Zeroizing's drop
\* zeroizes it
from_protobuf_encoding_dropped(bytes) ==
    IF ~any_feature THEN NoBuffer
    ELSE LET private_key == from_reader(bytes)
         IN  IF ~private_key.ok
             THEN NoBuffer
             ELSE Released(PrivateKey_zeroize(private_key.val))

\* impl From<ecdsa::Keypair> / <ed25519::Keypair> / <secp256k1::Keypair> /
\* <rsa::Keypair> for Keypair
Keypair_from_ecdsa(kp) == [variant |-> "Ecdsa", key |-> kp]
Keypair_from_ed25519(kp) == [variant |-> "Ed25519", key |-> kp]
Keypair_from_secp256k1(kp) == [variant |-> "Secp256k1", key |-> kp]
Keypair_from_rsa(kp) == [variant |-> "Rsa", key |-> kp]

\* TryInto<ed25519::Keypair> reporting the requested type instead of the held one
Keypair_try_into_ed25519_requested(self) ==
    CASE self.variant = "Ed25519" -> Ok(self.key)
      [] self.variant = "Rsa" -> Err(OtherVariantError("Ed25519"))
      [] self.variant = "Secp256k1" -> Err(OtherVariantError("Ed25519"))
      [] self.variant = "Ecdsa" -> Err(OtherVariantError("Ed25519"))

\* impl TryInto<ed25519::Keypair> for Keypair
Keypair_try_into_ed25519(self) ==
    CASE self.variant = "Ed25519" -> Ok(self.key)
      [] self.variant = "Rsa" -> Err(OtherVariantError("RSA"))
      [] self.variant = "Secp256k1" -> Err(OtherVariantError("Secp256k1"))
      [] self.variant = "Ecdsa" -> Err(OtherVariantError("Ecdsa"))

\* impl TryInto<ecdsa::Keypair> for Keypair
Keypair_try_into_ecdsa(self) ==
    CASE self.variant = "Ecdsa" -> Ok(self.key)
      [] self.variant = "Ed25519" -> Err(OtherVariantError("Ed25519"))
      [] self.variant = "Rsa" -> Err(OtherVariantError("RSA"))
      [] self.variant = "Secp256k1" -> Err(OtherVariantError("Secp256k1"))

\* impl TryInto<secp256k1::Keypair> for Keypair
Keypair_try_into_secp256k1(self) ==
    CASE self.variant = "Secp256k1" -> Ok(self.key)
      [] self.variant = "Ed25519" -> Err(OtherVariantError("Ed25519"))
      [] self.variant = "Rsa" -> Err(OtherVariantError("RSA"))
      [] self.variant = "Ecdsa" -> Err(OtherVariantError("Ecdsa"))

\* impl TryInto<rsa::Keypair> for Keypair
Keypair_try_into_rsa(self) ==
    CASE self.variant = "Rsa" -> Ok(self.key)
      [] self.variant = "Ed25519" -> Err(OtherVariantError("Ed25519"))
      [] self.variant = "Secp256k1" -> Err(OtherVariantError("Secp256k1"))
      [] self.variant = "Ecdsa" -> Err(OtherVariantError("Ecdsa"))

----------------------------------------------------------------------------
(* PublicKey *)

\* verify with the ECDSA arm handing the key to the secp256k1 backend
verify_ecdsa_as_secp256k1(self, msg, sig) ==
    CASE self.variant = "Ed25519" -> backend_verify("Ed25519", self.key, msg, sig)
      [] self.variant = "Rsa" -> backend_verify("Rsa", self.key, msg, sig)
      [] self.variant = "Secp256k1" -> backend_verify("Secp256k1", self.key, msg, sig)
      [] self.variant = "Ecdsa" -> backend_verify("Secp256k1", self.key, msg, sig)

\* PublicKey::verify
verify(self, msg, sig) ==
    CASE self.variant = "Ed25519" -> backend_verify("Ed25519", self.key, msg, sig)
      [] self.variant = "Rsa" -> backend_verify("Rsa", self.key, msg, sig)
      [] self.variant = "Secp256k1" -> backend_verify("Secp256k1", self.key, msg, sig)
      [] self.variant = "Ecdsa" -> backend_verify("Ecdsa", self.key, msg, sig)

\* impl From<&PublicKey> for proto::PublicKey
proto_PublicKey_from(key) ==
    CASE key.variant = "Ed25519" ->
            [Type |-> KeyType.Ed25519, Data |-> backend_encode_public("Ed25519", key.key)]
      [] key.variant = "Rsa" ->
            [Type |-> KeyType.RSA, Data |-> backend_encode_public("Rsa", key.key)]
      [] key.variant = "Secp256k1" ->
            [Type |-> KeyType.Secp256k1, Data |-> backend_encode_public("Secp256k1", key.key)]
      [] key.variant = "Ecdsa" ->
            [Type |-> KeyType.ECDSA, Data |-> backend_encode_public("Ecdsa", key.key)]

\* encode_protobuf writing after the bytes of the previous encode call instead
\* of into a fresh buffer
encode_protobuf_reused_buffer(self) ==
    IF ~any_feature THEN Panic
    ELSE (IF res.op = "encode_protobuf" THEN res.out.val ELSE <<>>)
         \o write_message(proto_PublicKey_from(self))

\* PublicKey::encode_protobuf: a fresh buffer, the record written into it
encode_protobuf(self) ==
    IF ~any_feature THEN Panic
    ELSE <<>> \o write_message(proto_PublicKey_from(self))

\* the backend's decoded key wrapped in the PublicKey variant v (the .map closures)
map_publickey(v, r) == IF r.ok THEN Ok([variant |-> v, key |-> r.val]) ELSE r

\* TryFrom<proto::PublicKey> with the RSA arm compiled under cfg(feature = "ecdsa")
try_from_rsa_wrong_cfg(pubkey) ==
    CASE pubkey.Type = KeyType.Ed25519 ->
            IF "ed25519" \in features
            THEN map_publickey("Ed25519", backend_decode_public("Ed25519", pubkey.Data))
            ELSE Err(missing_feature("ed25519"))
      [] pubkey.Type = KeyType.RSA ->
            IF "ecdsa" \in features
            THEN map_publickey("Rsa", backend_decode_public("Rsa", pubkey.Data))
            ELSE Err(missing_feature("rsa"))
      [] pubkey.Type = KeyType.Secp256k1 ->
            IF "secp256k1" \in features
            THEN map_publickey("Secp256k1", backend_decode_public("Secp256k1", pubkey.Data))
            ELSE Err(missing_feature("secp256k1"))
      [] pubkey.Type = KeyType.ECDSA ->
            IF "ecdsa" \in features
            THEN map_publickey("Ecdsa", backend_decode_public("Ecdsa", pubkey.Data))
            ELSE Err(missing_feature("ecdsa"))

\* impl TryFrom<proto::PublicKey> for PublicKey
try_from(pubkey) ==
    CASE pubkey.Type = KeyType.Ed25519 ->
            IF "ed25519" \in features
            THEN map_publickey("Ed25519", backend_decode_public("Ed25519", pubkey.Data))
            ELSE Err(missing_feature("ed25519"))
      [] pubkey.Type = KeyType.RSA ->
            IF "rsa" \in features /\ ~wasm32
            THEN map_publickey("Rsa", backend_decode_public("Rsa", pubkey.Data))
            ELSE Err(missing_feature("rsa"))
      [] pubkey.Type = KeyType.Secp256k1 ->
            IF "secp256k1" \in features
            THEN map_publickey("Secp256k1", backend_decode_public("Secp256k1", pubkey.Data))
            ELSE Err(missing_feature("secp256k1"))
      [] pubkey.Type = KeyType.ECDSA ->
            IF "ecdsa" \in features
            THEN map_publickey("Ecdsa", backend_decode_public("Ecdsa", pubkey.Data))
            ELSE Err(missing_feature("ecdsa"))

\* PublicKey::try_decode_protobuf
try_decode_protobuf(bytes) ==
    IF ~any_feature THEN Panic
    ELSE LET pubkey == from_reader(bytes)
         IN  IF ~pubkey.ok
             THEN Err(bad_protobuf("public key bytes", pubkey.err))
             ELSE try_from(pubkey.val)

\* impl From<ed25519::PublicKey> / <secp256k1::PublicKey> / <ecdsa::PublicKey> /
\* <rsa::PublicKey> for PublicKey
PublicKey_from_ed25519(key) == [variant |-> "Ed25519", key |-> key]
PublicKey_from_secp256k1(key) == [variant |-> "Secp256k1", key |-> key]
\* From<ecdsa::PublicKey> wrapping the key in the Secp256k1 variant
PublicKey_from_ecdsa_as_secp256k1(key) == [variant |-> "Secp256k1", key |-> key]
PublicKey_from_ecdsa(key) == [variant |-> "Ecdsa", key |-> key]
PublicKey_from_rsa(key) == [variant |-> "Rsa", key |-> key]

\* impl TryInto<ed25519::PublicKey> for PublicKey
PublicKey_try_into_ed25519(self) ==
    CASE self.variant = "Ed25519" -> Ok(self.key)
      [] self.variant = "Rsa" -> Err(OtherVariantError("RSA"))
      [] self.variant = "Secp256k1" -> Err(OtherVariantError("Secp256k1"))
      [] self.variant = "Ecdsa" -> Err(OtherVariantError("Ecdsa"))

\* impl TryInto<ecdsa::PublicKey> for PublicKey
PublicKey_try_into_ecdsa(self) ==
    CASE self.variant = "Ecdsa" -> Ok(self.key)
      [] self.variant = "Ed25519" -> Err(OtherVariantError("Ed25519"))
      [] self.variant = "Rsa" -> Err(OtherVariantError("RSA"))
      [] self.variant = "Secp256k1" -> Err(OtherVariantError("Secp256k1"))

\* impl TryInto<secp256k1::PublicKey> for PublicKey
PublicKey_try_into_secp256k1(self) ==
    CASE self.variant = "Secp256k1" -> Ok(self.key)
      [] self.variant = "Ed25519" -> Err(OtherVariantError("Ed25519"))
      [] self.variant = "Rsa" -> Err(OtherVariantError("RSA"))
      [] self.variant = "Ecdsa" -> Err(OtherVariantError("Ecdsa"))

\* impl TryInto<rsa::PublicKey> for PublicKey
PublicKey_try_into_rsa(self) ==
    CASE self.variant = "Rsa" -> Ok(self.key)
      [] self.variant = "Ed25519" -> Err(OtherVariantError("Ed25519"))
      [] self.variant = "Secp256k1" -> Err(OtherVariantError("Secp256k1"))
      [] self.variant = "Ecdsa" -> Err(OtherVariantError("Ecdsa"))

\* the position of a variant in the declaration of PublicKeyInner, which
\* the derived PartialEq, Ord and Hash go by
discriminant(v) ==
    CASE v = "Ed25519" -> 0
      [] v = "Rsa" -> 1
      [] v = "Secp256k1" -> 2
      [] v = "Ecdsa" -> 3

\* eq comparing the variants only
eq_variant_only(self, other) ==
    discriminant(self.variant) = discriminant(other.variant)

\* #[derive(PartialEq, Eq)] on PublicKey / PublicKeyInner
eq(self, other) ==
    /\ discriminant(self.variant) = discriminant(other.variant)
    /\ backend_eq(self.variant, self.key, other.key)

\* #[derive(PartialOrd, Ord)]: the variants in declaration order, then the keys
cmp(self, other) ==
    IF discriminant(self.variant) < discriminant(other.variant) THEN "Less"
    ELSE IF discriminant(self.variant) > discriminant(other.variant) THEN "Greater"
    ELSE backend_cmp(self.variant, self.key, other.key)

\* #[derive(Hash)]: what is fed to the hasher, the discriminant and then the key
hash(self) == <<discriminant(self.variant)>> \o backend_hash(self.variant, self.key)

----------------------------------------------------------------------------
(* The caller: the inputs it may supply and the calls it makes *)

\* native key encodings, of every algorithm, and an empty payload
Payloads ==
    UNION {{backend_encode_public(a, pk) : pk \in ValidPublic(a)} : a \in Variants}
    \cup {backend_encode_private(a, sk) : a \in Variants \ {"Rsa"}, sk \in SecretKeys}
    \cup {<<>>}

\* byte strings read from storage or received from another node: records with a known or
\* an undefined algorithm type, and malformed ones
WireInputs ==
    {write_message([Type |-> t, Data |-> d]) : t \in KnownTypes \cup {99}, d \in Payloads}
    \cup {<<>>, <<8, 1>>, <<8, 1, 18, 3, 17>>}

Pkcs8Inputs ==
    {backend_encode_private("Rsa", sk) : sk \in SecretKeys}
    \cup {backend_encode_private("Ecdsa", 1), <<>>}

SigInputs ==
    {backend_sign(a, sk, m).val : a \in Variants \ {"Rsa"}, sk \in SecretKeys, m \in Msgs}
    \cup {<<backend_public("Rsa", sk) + 100>> \o m : sk \in SecretKeys, m \in Msgs}
    \cup {<<>>}

\* what the caller can hand to a decode call: the bytes its last encode call
\* returned, or, before it has built a key of its own, bytes it read
Readable ==
    (IF res.op \in {"to_protobuf_encoding", "encode_protobuf"} /\ res.out.ok
     THEN {res.out.val} ELSE {})
    \cup (IF keypair = NoKeypair /\ publickey = NoPublicKey THEN WireInputs ELSE {})

\* the PublicKey values of the enabled variants
PublicKeys ==
    UNION {{[variant |-> v, key |-> pk] : pk \in ValidPublic(v)} :
           v \in {x \in Variants : cfg_variant(x)}}

Call(op, self, bytes, sig, out) ==
    [op |-> op, self |-> self, other |-> NoPublicKey,
     bytes |-> bytes, sig |-> sig, out |-> out, dropped |-> NoBuffer]

IsPanic(out) == ~out.ok /\ out.err.kind = "panic"

\* key: the PublicKey value, outs: the outputs encode_protobuf returned for it,
\* n: the calls made (counted up to 2), via: how the encoded values were built
EmptyLog == [key |-> NoPublicKey, outs |-> {}, n |-> 0, via |-> {}]
\* the log follows the held PublicKey value
LogFor(pk) == IF encLog.key = pk THEN encLog ELSE EmptyLog

Init ==
    /\ features \in SUBSET AllFeatures
    /\ wasm32 \in BOOLEAN
    /\ wasm32 => "rsa" \in features   \* the target only matters to the RSA backend
    /\ keypair = NoKeypair
    /\ publickey = NoPublicKey
    /\ res = Call("none", NoKeypair, <<>>, <<>>, Ok(0))
    /\ encLog = EmptyLog
    /\ panicked = FALSE

\* a constructor of Keypair returned kp: the caller now works with that key
NewKeypair(op, kp) ==
    /\ ~panicked
    /\ keypair' = kp
    /\ publickey' = NoPublicKey
    /\ res' = Call(op, NoKeypair, <<>>, <<>>, Ok(kp))
    /\ encLog' = EmptyLog
    /\ UNCHANGED <<features, wasm32, panicked>>

\* a constructor of PublicKey returned pk (self: the Keypair it came from, if any)
NewPublicKey(op, self, pk) ==
    /\ ~panicked
    /\ keypair' = self
    /\ publickey' = pk
    /\ res' = Call(op, self, <<>>, <<>>, Ok(pk))
    /\ encLog' = LogFor(pk)
    /\ UNCHANGED <<features, wasm32, panicked>>

\* a call that only returns a result
Returns(op, self, bytes, sig, out) ==
    /\ ~panicked
    /\ res' = Call(op, self, bytes, sig, out)
    /\ panicked' = IsPanic(out)
    /\ UNCHANGED <<features, wasm32, keypair, publickey, encLog>>

\* a comparison of the held PublicKey with another one
Compares(op, self, other, out) ==
    /\ ~panicked
    /\ res' = [Call(op, self, <<>>, <<>>, Ok(out)) EXCEPT !.other = other]
    /\ UNCHANGED <<features, wasm32, keypair, publickey, encLog, panicked>>

GenerateEd25519 ==
    /\ cfg_ed25519
    /\ \E sk \in SecretKeys : NewKeypair("generate_ed25519", generate_ed25519(sk))

GenerateSecp256k1 ==
    /\ cfg_secp256k1
    /\ \E sk \in SecretKeys : NewKeypair("generate_secp256k1", generate_secp256k1(sk))

GenerateEcdsa ==
    /\ cfg_ecdsa
    /\ \E sk \in SecretKeys : NewKeypair("generate_ecdsa", generate_ecdsa(sk))

RsaFromPkcs8 ==
    /\ ~panicked
    /\ cfg_rsa
    /\ \E der \in Pkcs8Inputs :
        LET out == rsa_from_pkcs8(der)
        IN  /\ keypair' = IF out.ok THEN out.val ELSE keypair
            /\ publickey' = IF out.ok THEN NoPublicKey ELSE publickey
            /\ res' = Call("rsa_from_pkcs8", NoKeypair, der, <<>>, out)
            /\ encLog' = IF out.ok THEN EmptyLog ELSE encLog
            /\ UNCHANGED <<features, wasm32, panicked>>

KeypairFromEd25519 ==
    /\ cfg_ed25519
    /\ \E kp \in SecretKeys : NewKeypair("Keypair.from_ed25519", Keypair_from_ed25519(kp))

KeypairFromSecp256k1 ==
    /\ cfg_secp256k1
    /\ \E kp \in SecretKeys : NewKeypair("Keypair.from_secp256k1", Keypair_from_secp256k1(kp))

KeypairFromEcdsa ==
    /\ cfg_ecdsa
    /\ \E kp \in SecretKeys : NewKeypair("Keypair.from_ecdsa", Keypair_from_ecdsa(kp))

KeypairFromRsa ==
    /\ cfg_rsa
    /\ \E kp \in SecretKeys : NewKeypair("Keypair.from_rsa", Keypair_from_rsa(kp))

Sign ==
    /\ keypair # NoKeypair
    /\ \E msg \in Msgs : Returns("sign", keypair, msg, <<>>, sign(keypair, msg))

\* public taking the Keypair by value: the caller no longer holds it
Public_consuming_self ==
    /\ ~panicked
    /\ keypair # NoKeypair
    /\ keypair' = NoKeypair
    /\ publickey' = public(keypair)
    /\ res' = Call("public", keypair, <<>>, <<>>, Ok(public(keypair)))
    /\ encLog' = LogFor(public(keypair))
    /\ UNCHANGED <<features, wasm32, panicked>>

Public ==
    /\ keypair # NoKeypair
    /\ NewPublicKey("public", keypair, public(keypair))

ToProtobufEncoding ==
    /\ keypair # NoKeypair
    /\ Returns("to_protobuf_encoding", keypair, <<>>, <<>>, to_protobuf_encoding(keypair))

FromProtobufEncoding ==
    /\ ~panicked
    /\ \E bytes \in Readable :
        LET out == from_protobuf_encoding(bytes)
        IN  /\ res' = [Call("from_protobuf_encoding", NoKeypair, bytes, <<>>, out)
                        EXCEPT !.dropped = from_protobuf_encoding_dropped(bytes)]
            /\ panicked' = IsPanic(out)
            /\ UNCHANGED <<features, wasm32, keypair, publickey, encLog>>

KeypairTryIntoEd25519 ==
    /\ cfg_ed25519 /\ keypair # NoKeypair
    /\ Returns("Keypair.try_into_ed25519", keypair, <<>>, <<>>, Keypair_try_into_ed25519(keypair))

KeypairTryIntoSecp256k1 ==
    /\ cfg_secp256k1 /\ keypair # NoKeypair
    /\ Returns("Keypair.try_into_secp256k1", keypair, <<>>, <<>>, Keypair_try_into_secp256k1(keypair))

KeypairTryIntoRsa ==
    /\ cfg_rsa /\ keypair # NoKeypair
    /\ Returns("Keypair.try_into_rsa", keypair, <<>>, <<>>, Keypair_try_into_rsa(keypair))

KeypairTryIntoEcdsa ==
    /\ cfg_ecdsa /\ keypair # NoKeypair
    /\ Returns("Keypair.try_into_ecdsa", keypair, <<>>, <<>>, Keypair_try_into_ecdsa(keypair))

Verify ==
    /\ publickey # NoPublicKey
    /\ \E msg \in Msgs, sig \in SigInputs :
        Returns("verify", publickey, msg, sig, Ok(verify(publickey, msg, sig)))

EncodeProtobuf ==
    /\ ~panicked
    /\ publickey # NoPublicKey
    /\ LET out == encode_protobuf(publickey)
       IN  /\ res' = Call("encode_protobuf", publickey, <<>>, <<>>, Ok(out))
           /\ encLog' = [key |-> publickey,
                         outs |-> LogFor(publickey).outs \cup {out},
                         n |-> IF LogFor(publickey).n < 2 THEN LogFor(publickey).n + 1 ELSE 2,
                         via |-> LogFor(publickey).via
                                 \cup {IF keypair # NoKeypair THEN "public" ELSE "from"}]
           /\ UNCHANGED <<features, wasm32, keypair, publickey, panicked>>

TryDecodeProtobuf ==
    \E bytes \in Readable :
        Returns("try_decode_protobuf", NoPublicKey, bytes, <<>>, try_decode_protobuf(bytes))

Eq ==
    /\ publickey # NoPublicKey
    /\ \E other \in PublicKeys : Compares("eq", publickey, other, eq(publickey, other))

Cmp ==
    /\ publickey # NoPublicKey
    /\ \E other \in PublicKeys : Compares("cmp", publickey, other, cmp(publickey, other))

Hash ==
    /\ publickey # NoPublicKey
    /\ Returns("hash", publickey, <<>>, <<>>, Ok(hash(publickey)))

PublicKeyFromEd25519 ==
    /\ cfg_ed25519
    /\ \E key \in ValidPublic("Ed25519") :
        NewPublicKey("PublicKey.from_ed25519", NoPublicKey, PublicKey_from_ed25519(key))

PublicKeyFromSecp256k1 ==
    /\ cfg_secp256k1
    /\ \E key \in ValidPublic("Secp256k1") :
        NewPublicKey("PublicKey.from_secp256k1", NoPublicKey, PublicKey_from_secp256k1(key))

PublicKeyFromEcdsa ==
    /\ cfg_ecdsa
    /\ \E key \in ValidPublic("Ecdsa") :
        NewPublicKey("PublicKey.from_ecdsa", NoPublicKey, PublicKey_from_ecdsa(key))

PublicKeyFromRsa ==
    /\ cfg_rsa
    /\ \E key \in ValidPublic("Rsa") :
        NewPublicKey("PublicKey.from_rsa", NoPublicKey, PublicKey_from_rsa(key))

PublicKeyTryIntoEd25519 ==
    /\ cfg_ed25519 /\ publickey # NoPublicKey
    /\ Returns("PublicKey.try_into_ed25519", publickey, <<>>, <<>>, PublicKey_try_into_ed25519(publickey))

PublicKeyTryIntoSecp256k1 ==
    /\ cfg_secp256k1 /\ publickey # NoPublicKey
    /\ Returns("PublicKey.try_into_secp256k1", publickey, <<>>, <<>>, PublicKey_try_into_secp256k1(publickey))

PublicKeyTryIntoRsa ==
    /\ cfg_rsa /\ publickey # NoPublicKey
    /\ Returns("PublicKey.try_into_rsa", publickey, <<>>, <<>>, PublicKey_try_into_rsa(publickey))

PublicKeyTryIntoEcdsa ==
    /\ cfg_ecdsa /\ publickey # NoPublicKey
    /\ Returns("PublicKey.try_into_ecdsa", publickey, <<>>, <<>>, PublicKey_try_into_ecdsa(publickey))

Next ==
    \/ GenerateEd25519 \/ GenerateSecp256k1 \/ GenerateEcdsa \/ RsaFromPkcs8
    \/ KeypairFromEd25519 \/ KeypairFromSecp256k1 \/ KeypairFromEcdsa \/ KeypairFromRsa
    \/ Sign \/ Public \/ ToProtobufEncoding \/ FromProtobufEncoding
    \/ KeypairTryIntoEd25519 \/ KeypairTryIntoSecp256k1
    \/ KeypairTryIntoRsa \/ KeypairTryIntoEcdsa
    \/ Verify \/ EncodeProtobuf \/ TryDecodeProtobuf
    \/ Eq \/ Cmp \/ Hash
    \/ PublicKeyFromEd25519 \/ PublicKeyFromSecp256k1
    \/ PublicKeyFromEcdsa \/ PublicKeyFromRsa
    \/ PublicKeyTryIntoEd25519 \/ PublicKeyTryIntoSecp256k1
    \/ PublicKeyTryIntoRsa \/ PublicKeyTryIntoEcdsa

Spec == Init /\ [][Next]_vars

----------------------------------------------------------------------------
(* Properties *)

\* the wire record <<8, Type, 18, length>> \o Data, read without the parser
WellFormedRecord(bytes) ==
    Len(bytes) >= 4 /\ bytes[1] = 8 /\ bytes[3] = 18 /\ bytes[4] = Len(bytes) - 4
RecordType(bytes) == bytes[2]

\* crate::KeyType as carried by OtherVariantError, per held variant
KeyTypeOf(v) ==
    CASE v = "Ed25519" -> "Ed25519" [] v = "Rsa" -> "RSA"
      [] v = "Secp256k1" -> "Secp256k1" [] v = "Ecdsa" -> "Ecdsa"

\* the concrete type a try_into or from call names
KeypairFromOps ==
    {"Keypair.from_ed25519", "Keypair.from_rsa",
     "Keypair.from_secp256k1", "Keypair.from_ecdsa"}
PublicKeyFromOps ==
    {"PublicKey.from_ed25519", "PublicKey.from_rsa",
     "PublicKey.from_secp256k1", "PublicKey.from_ecdsa"}
KeypairTryIntoOps ==
    {"Keypair.try_into_ed25519", "Keypair.try_into_rsa",
     "Keypair.try_into_secp256k1", "Keypair.try_into_ecdsa"}
PublicKeyTryIntoOps ==
    {"PublicKey.try_into_ed25519", "PublicKey.try_into_rsa",
     "PublicKey.try_into_secp256k1", "PublicKey.try_into_ecdsa"}
Requested(op) ==
    CASE op \in {"Keypair.try_into_ed25519", "PublicKey.try_into_ed25519",
                 "Keypair.from_ed25519", "PublicKey.from_ed25519"} -> "Ed25519"
      [] op \in {"Keypair.try_into_rsa", "PublicKey.try_into_rsa",
                 "Keypair.from_rsa", "PublicKey.from_rsa"} -> "Rsa"
      [] op \in {"Keypair.try_into_secp256k1", "PublicKey.try_into_secp256k1",
                 "Keypair.from_secp256k1", "PublicKey.from_secp256k1"} -> "Secp256k1"
      [] op \in {"Keypair.try_into_ecdsa", "PublicKey.try_into_ecdsa",
                 "Keypair.from_ecdsa", "PublicKey.from_ecdsa"} -> "Ecdsa"

\* From<X::Keypair> / From<X::PublicKey>, by the concrete type X
KeypairFrom(x, kp) ==
    CASE x = "Ed25519" -> Keypair_from_ed25519(kp) [] x = "Rsa" -> Keypair_from_rsa(kp)
      [] x = "Secp256k1" -> Keypair_from_secp256k1(kp) [] x = "Ecdsa" -> Keypair_from_ecdsa(kp)
PublicKeyFrom(x, key) ==
    CASE x = "Ed25519" -> PublicKey_from_ed25519(key) [] x = "Rsa" -> PublicKey_from_rsa(key)
      [] x = "Secp256k1" -> PublicKey_from_secp256k1(key) [] x = "Ecdsa" -> PublicKey_from_ecdsa(key)

\* C1: public-key wire round trip.  When try_decode_protobuf has been called
\* on the bytes encode_protobuf returns for the public key of the held
\* Keypair (of any enabled algorithm, RSA included), it returned Ok with a
\* PublicKey equal to that public key: same variant, same key.
C1_PublicRoundTrip ==
    (/\ res.op = "try_decode_protobuf"
     /\ keypair # NoKeypair
     /\ res.bytes = encode_protobuf(public(keypair)))
    => (/\ res.out.ok
        /\ res.out.val.variant = keypair.variant
        /\ res.out.val = public(keypair))

C1_Witness ==
    /\ res.op = "try_decode_protobuf"
    /\ keypair.variant = "Rsa"
    /\ publickey = public(keypair)
    /\ res.bytes = encode_protobuf(publickey)
    /\ res.out.ok

\* C2: private-key wire round trip.  For a Keypair holding Ed25519, Secp256k1
\* or ECDSA, to_protobuf_encoding returns Ok; from_protobuf_encoding of those
\* bytes returns Ok with a Keypair of the same variant whose public key equals
\* the original's, which is also what decoding the original's encoded public
\* key gives.
C2_PrivateRoundTrip ==
    /\ (res.op = "to_protobuf_encoding" /\ res.self.variant # "Rsa") => res.out.ok
    /\ (/\ res.op = "from_protobuf_encoding"
        /\ keypair.variant \in {"Ed25519", "Secp256k1", "Ecdsa"}
        /\ to_protobuf_encoding(keypair).ok
        /\ res.bytes = to_protobuf_encoding(keypair).val)
       => (/\ res.out.ok
           /\ res.out.val.variant = keypair.variant
           /\ public(res.out.val) = public(keypair)
           /\ try_decode_protobuf(encode_protobuf(public(keypair))).ok
           /\ try_decode_protobuf(encode_protobuf(public(keypair))).val = public(res.out.val))

C2_Witness ==
    /\ res.op = "from_protobuf_encoding"
    /\ keypair.variant = "Secp256k1"
    /\ res.bytes = to_protobuf_encoding(keypair).val
    /\ res.out.ok
    /\ res.out.val = keypair

\* C3: RSA private encode policy.  to_protobuf_encoding on a Keypair holding
\* the RSA variant returns the "encoding unsupported" error naming RSA, and no
\* bytes, whatever the key; on every other variant it returns Ok with bytes.
C3_RsaEncodeUnsupported ==
    res.op = "to_protobuf_encoding" =>
        IF res.self.variant = "Rsa"
        THEN ~res.out.ok /\ res.out.err = encoding_unsupported("RSA")
        ELSE res.out.ok /\ Len(res.out.val) > 0

C3_Witness ==
    /\ res.op = "to_protobuf_encoding"
    /\ res.self.variant = "Rsa"
    /\ res.self.key = MaxKey
    /\ ~res.out.ok

\* C4: cross-algorithm isolation.  A try_into call for the concrete type X on
\* a Keypair or PublicKey holding another algorithm Y returns
\* Err(OtherVariantError) carrying Y, the held algorithm; it does not return
\* Ok and the process does not panic.
C4_CrossAlgorithmIsolation ==
    (/\ res.op \in KeypairTryIntoOps \cup PublicKeyTryIntoOps
     /\ res.self.variant # Requested(res.op))
    => (/\ ~res.out.ok
        /\ res.out.err = OtherVariantError(KeyTypeOf(res.self.variant))
        /\ ~panicked)

C4_Witness ==
    /\ res.op = "Keypair.try_into_ed25519"
    /\ res.self.variant = "Rsa"
    /\ ~res.out.ok
    /\ res.out.err.what = "RSA"

\* C5: downcast/upcast round trip on the matching arm.  try_into for the
\* concrete type X on a PublicKey P (a Keypair K) holding X returns Ok(inner),
\* and From applied to inner gives back P (K); a Keypair built by From from a
\* concrete keypair k downcasts to Ok(k); and From always wraps in the variant
\* of the concrete type.
C5_DowncastUpcast ==
    /\ (res.op \in PublicKeyTryIntoOps /\ res.self.variant = Requested(res.op))
       => (res.out.ok /\ PublicKeyFrom(Requested(res.op), res.out.val) = res.self)
    /\ (res.op \in KeypairTryIntoOps /\ res.self.variant = Requested(res.op))
       => (/\ res.out.ok
           /\ KeypairFrom(Requested(res.op), res.out.val) = res.self
           /\ \A k \in SecretKeys :
                res.self = KeypairFrom(Requested(res.op), k) => res.out.val = k)
    /\ (res.op \in KeypairFromOps \cup PublicKeyFromOps)
       => (res.out.ok /\ res.out.val.variant = Requested(res.op))

C5_Witness ==
    /\ res.op = "PublicKey.try_into_ecdsa"
    /\ res.self.variant = "Ecdsa"
    /\ res.out.ok
    /\ PublicKey_from_ecdsa(res.out.val) = publickey

\* the variant and the feature name of a wire algorithm type
VariantOfType(t) ==
    CASE t = KeyType.RSA -> "Rsa" [] t = KeyType.Ed25519 -> "Ed25519"
      [] t = KeyType.Secp256k1 -> "Secp256k1" [] t = KeyType.ECDSA -> "Ecdsa"
FeatureOfType(t) ==
    CASE t = KeyType.RSA -> "rsa" [] t = KeyType.Ed25519 -> "ed25519"
      [] t = KeyType.Secp256k1 -> "secp256k1" [] t = KeyType.ECDSA -> "ecdsa"

\* C6 (as claimed): decoding a wire record whose algorithm-type field is
\* outside {0,1,2,3}, with try_decode_protobuf or from_protobuf_encoding, fails
\* with an error of its own: not the generic protobuf parse error, and none of
\* the errors that the arms of the four known algorithms return.  Stated for
\* the builds that compile the decoders.
C6_UnknownTypeOwnError ==
    (/\ res.op \in {"try_decode_protobuf", "from_protobuf_encoding"}
     /\ any_feature
     /\ WellFormedRecord(res.bytes)
     /\ RecordType(res.bytes) \notin KnownTypes)
    => (/\ ~res.out.ok
        /\ res.out.err.kind \notin {"bad_protobuf", "failed_to_parse", "missing_feature",
                                    "decoding_unsupported"})

\* C7 (as claimed): in every build, try_decode_protobuf of a well-formed
\* record tagged with a recognized algorithm whose backend is not enabled
\* fails with the "missing feature" error naming that algorithm.
C7_DisabledPublicDecode ==
    (/\ res.op = "try_decode_protobuf"
     /\ WellFormedRecord(res.bytes)
     /\ RecordType(res.bytes) \in KnownTypes
     /\ ~cfg_variant(VariantOfType(RecordType(res.bytes))))
    => (/\ ~res.out.ok
        /\ res.out.err = missing_feature(FeatureOfType(RecordType(res.bytes))))

\* C8 (as claimed): from_protobuf_encoding of a well-formed record tagged with
\* a recognized algorithm, RSA included, whose backend is not compiled in fails
\* with the "missing feature" error naming that algorithm.  Stated for the
\* builds that compile the decoder.
C8_DisabledPrivateDecode ==
    (/\ res.op = "from_protobuf_encoding"
     /\ any_feature
     /\ WellFormedRecord(res.bytes)
     /\ RecordType(res.bytes) \in KnownTypes
     /\ ~cfg_variant(VariantOfType(RecordType(res.bytes))))
    => (/\ ~res.out.ok
        /\ res.out.err = missing_feature(FeatureOfType(RecordType(res.bytes))))

\* C9: sign/verify through the dispatch.  When verify has been called on the
\* public key of the held Keypair with a message m and the signature that
\* sign(m) returns Ok for that Keypair, it returned true.
C9_SignVerify ==
    (/\ res.op = "verify"
     /\ keypair # NoKeypair
     /\ res.self = public(keypair)
     /\ sign(keypair, res.bytes).ok
     /\ res.sig = sign(keypair, res.bytes).val)
    => res.out.val = TRUE

C9_Witness ==
    /\ res.op = "verify"
    /\ keypair.variant = "Ecdsa"
    /\ publickey = public(keypair)
    /\ res.self = publickey
    /\ res.sig = sign(keypair, res.bytes).val
    /\ res.out.val = TRUE

Reverse(o) ==
    CASE o = "Less" -> "Greater" [] o = "Greater" -> "Less" [] o = "Equal" -> "Equal"
SameKey(a, b) == a.variant = b.variant /\ a.key = b.key

\* C11: PublicKey equality, ordering and hashing agree.  eq returns true
\* exactly for two values of the same variant holding the same key; values
\* that compare equal feed the same input to the hasher; cmp returns Equal
\* exactly when the values are equal, also across variants, gives the opposite
\* answer with its arguments exchanged, and is transitive.
C11_EqOrdHashConsistent ==
    /\ res.op = "eq" =>
        /\ res.out.val <=> SameKey(res.self, res.other)
        /\ res.out.val => hash(res.self) = hash(res.other)
        /\ res.out.val <=> cmp(res.self, res.other) = "Equal"
    /\ res.op = "cmp" =>
        /\ res.out.val \in {"Less", "Equal", "Greater"}
        /\ res.out.val = "Equal" <=> SameKey(res.self, res.other)
        /\ res.out.val = "Equal" <=> eq(res.self, res.other)
        /\ cmp(res.other, res.self) = Reverse(res.out.val)
        /\ \A c \in PublicKeys :
             (res.out.val = "Less" /\ cmp(res.other, c) = "Less")
             => cmp(res.self, c) = "Less"
    /\ res.op = "hash" =>
        \A other \in PublicKeys :
            (eq(res.self, other) <=> SameKey(res.self, other))
            /\ (eq(res.self, other) => hash(other) = res.out.val)

C11_Witness ==
    /\ res.op = "cmp"
    /\ res.self.variant = "Ecdsa"
    /\ res.other.variant = "Ed25519"
    /\ res.out.val = "Greater"

\* the kinds of crate::error::DecodingError
DecodingErrorKinds ==
    {"missing_feature", "bad_protobuf", "failed_to_parse",
     "encoding_unsupported", "decoding_unsupported"}

\* C12 (as claimed): no decode or encode entry point terminates the process in
\* any build configuration, the one with no algorithm enabled included: a call
\* of from_protobuf_encoding or try_decode_protobuf, on any bytes, returns a
\* value or a typed DecodingError and never panics.
C12_DecodeNeverPanics ==
    /\ ~panicked
    /\ res.op \in {"from_protobuf_encoding", "try_decode_protobuf",
                   "to_protobuf_encoding"}
       => (res.out.ok \/ res.out.err.kind \in DecodingErrorKinds)

\* the numeric value of the algorithm-type field for a variant, as fixed by
\* the wire format
WireTag(v) ==
    CASE v = "Rsa" -> 0 [] v = "Ed25519" -> 1 [] v = "Secp256k1" -> 2 [] v = "Ecdsa" -> 3

\* C13: the wire tag agrees with the held variant.  The bytes that
\* to_protobuf_encoding (when it returns Ok) and encode_protobuf return are a
\* record whose algorithm-type field is the fixed number of the receiver's
\* variant (0 RSA, 1 Ed25519, 2 Secp256k1, 3 ECDSA); and a value that
\* try_decode_protobuf or from_protobuf_encoding returns Ok holds the variant
\* that the decoded record's type field names.
C13_WireTagAgrees ==
    /\ (res.op \in {"to_protobuf_encoding", "encode_protobuf"} /\ res.out.ok)
       => (/\ WellFormedRecord(res.out.val)
           /\ RecordType(res.out.val) = WireTag(res.self.variant))
    /\ (res.op \in {"try_decode_protobuf", "from_protobuf_encoding"} /\ res.out.ok)
       => (/\ WellFormedRecord(res.bytes)
           /\ RecordType(res.bytes) = WireTag(res.out.val.variant))

C13_Witness ==
    /\ res.op = "to_protobuf_encoding"
    /\ res.self.variant = "Secp256k1"
    /\ res.out.ok
    /\ RecordType(res.out.val) = 2

\* C14: secret scrubbing on every exit path of private decode.  When
\* from_protobuf_encoding has parsed the wire record, the buffer that held the
\* record's opaque private bytes is all zeroes, over its whole length, when
\* the call returns: whether the backend accepted the bytes, rejected them,
\* the type was RSA or the algorithm is not compiled in.
C14_ScrubbedOnEveryPath ==
    (/\ res.op = "from_protobuf_encoding"
     /\ any_feature
     /\ WellFormedRecord(res.bytes)
     /\ RecordType(res.bytes) \in KnownTypes)
    => (/\ res.dropped.allocated
        /\ Len(res.dropped.Data) = Len(res.bytes) - 4
        /\ \A i \in 1..Len(res.dropped.Data) : res.dropped.Data[i] = 0
        /\ \/ res.out.ok
           \/ res.out.err.kind \in {"failed_to_parse", "decoding_unsupported",
                                    "missing_feature"})

C14_Witness ==
    /\ res.op = "from_protobuf_encoding"
    /\ ~res.out.ok
    /\ res.out.err.kind = "failed_to_parse"
    /\ Len(res.bytes) > 4
    /\ res.dropped.allocated
    /\ res.dropped.Data = zeroize(SubSeq(res.bytes, 5, Len(res.bytes)))

\* C15: Keypair::public() is total, pure and keeps the algorithm.  Every call
\* of public on a Keypair K returned a PublicKey, of the same variant as K;
\* and a call made on a K whose public key has been derived before returns a
\* PublicKey equal to the earlier one.
C15_PublicTotalPure ==
    /\ [](res.op = "public" =>
            /\ res.out.ok
            /\ res.out.val.variant \in Variants
            /\ res.out.val.variant = res.self.variant
            /\ cfg_variant(res.out.val.variant))
    /\ [][(/\ res'.op = "public"
           /\ res'.self = keypair
           /\ keypair # NoKeypair
           /\ publickey # NoPublicKey)
          => (res'.out.ok /\ eq(res'.out.val, publickey))]_vars

C15_Witness ==
    /\ res.op = "public"
    /\ res.self.variant = "Ecdsa"
    /\ res.out.ok
    /\ res.out.val.variant = "Ecdsa"
    /\ publickey = res.out.val

C17_SignFailsOnlyForRsa ==
    res.op = "sign" =>
        /\ res.self.variant \in {"Ed25519", "Secp256k1", "Ecdsa"} => res.out.ok
        /\ ~res.out.ok =>
            /\ res.self.variant = "Rsa"
            /\ ~backend_sign("Rsa", res.self.key, res.bytes).ok
            /\ res.out.err = backend_sign("Rsa", res.self.key, res.bytes).err
        /\ (res.self.variant = "Rsa" /\ res.out.ok) =>
            /\ backend_sign("Rsa", res.self.key, res.bytes).ok
            /\ res.out.val = backend_sign("Rsa", res.self.key, res.bytes).val

C17_Witness ==
    /\ res.op = "sign"
    /\ res.self.variant = "Rsa"
    /\ ~res.out.ok
    /\ res.out.err.kind = "signing"

\* C18 (as claimed): from_protobuf_encoding never produces an RSA keypair.  In
\* every build, whether or not the RSA backend is enabled, a call on a
\* well-formed record of type RSA, whatever its payload, fails with the
\* "decoding unsupported" error naming RSA; and a Keypair that a call returns
\* holds Ed25519, Secp256k1 or ECDSA.
C18_NoRsaFromPrivateDecode ==
    res.op = "from_protobuf_encoding" =>
        /\ (WellFormedRecord(res.bytes) /\ RecordType(res.bytes) = 0)
           => (/\ ~res.out.ok
               /\ res.out.err.kind = "decoding_unsupported"
               /\ res.out.err.what = "RSA")
        /\ res.out.ok => res.out.val.variant \in {"Ed25519", "Secp256k1", "Ecdsa"}

====
